---- MODULE Spec2Model ----
(***************************************************************************)
(* Model of the tools of andygeiss/hotel-booking:                          *)
(*   - the PGO profile-generation pipeline (tools/create_pgo.py, known     *)
(*     through tools/create_pgo_test.py and the specification), and        *)
(*   - the local secret rotation utility (tools/change_me_local_secret.py).*)
(* Text (file names, package identifiers, file contents) is modelled as    *)
(* sequences of one-character strings, so that replacement and wildcard    *)
(* matching are computed character by character as Python computes them.   *)
(***************************************************************************)
EXTENDS Integers, Sequences, FiniteSets

VARIABLES
    \* ---- artifact naming (pure function, SpecNaming) ----
    idA, idB,           \* two ProfiledUnit identifiers
    nameA, nameB,       \* their derived artifact file names
    named,              \* TRUE once the names have been derived
    \* ---- profile-generation pipeline (Spec) ----
    units,              \* PACKAGES_TO_PROFILE: the configured, ordered unit list
    fs,                 \* the working directory: file name -> content
    pc,                 \* position of main(): bench, merge, copy, svg, cleanup, done, exited
    idx,                \* index of the unit the benchmark loop is at
    run,                \* number of the current pipeline run
    exitStatus,         \* <<>> while the process runs, <<status>> once it has ended
    log,                \* history: the steps this run has executed, in order
    startCanon,         \* history: CanonicalProfile when this run started
    preClean,           \* history: the directory just before this run's cleanup
    \* ---- CommandRunner called on its own (SpecRunner) ----
    calls,              \* history: the run_command calls made so far, in order
    invocations,        \* number of times subprocess.run has been invoked
    alive,              \* FALSE once sys.exit has ended the process
    procStatus,         \* <<>> while the process runs, <<status>> once it has ended
    \* ---- secret rotation (SpecRotate) ----
    files,              \* path -> [exists, text] for .env and .keycloak.json
    orig,               \* history: path -> the text the file was created with
    writes,             \* history: path -> number of times a rotation wrote the file
    afterFirst,         \* history: path -> the text the first rotation write left
    written,            \* history: path -> the secret last written into the file
    rotations           \* number of rotation runs so far

nameVars == <<idA, idB, nameA, nameB, named>>
pipeVars == <<units, fs, pc, idx, run, exitStatus, log, startCanon, preClean>>

runVars == <<calls, invocations, alive, procStatus>>
rotVars == <<files, orig, writes, afterFirst, written, rotations>>

vars == <<nameVars, pipeVars, runVars, rotVars>>

-----------------------------------------------------------------------------
(* Text helpers: Python's str operations on sequences of characters.       *)

\* s[i .. i+Len(sub)-1] = sub
MatchAt(s, sub, i) ==
    /\ i >= 1
    /\ i + Len(sub) - 1 <= Len(s)
    /\ \A k \in 1..Len(sub) : s[i + k - 1] = sub[k]

\* Python: sub in s
Contains(s, sub) ==
    \E i \in 1..(Len(s) - Len(sub) + 1) : MatchAt(s, sub, i)

RECURSIVE StrReplaceFrom(_, _, _, _)
StrReplaceFrom(s, old, new, i) ==
    IF i > Len(s) THEN <<>>
    ELSE IF MatchAt(s, old, i)
         THEN new \o StrReplaceFrom(s, old, new, i + Len(old))
         ELSE <<s[i]>> \o StrReplaceFrom(s, old, new, i + 1)

\* Python: s.replace(old, new) for a non-empty old: the occurrences of old are
\* found scanning from the left, without overlap, and each becomes new.
StrReplace(s, old, new) == StrReplaceFrom(s, old, new, 1)

\* All sequences over S of length 0..n
SeqsUpTo(S, n) == UNION { [1..k -> S] : k \in 0..n }

-----------------------------------------------------------------------------
(* Artifact naming.                                                        *)

SLASH == <<"/">>
BACKSLASH == <<"\\">>
DUNDER == <<"_", "_">>
PROFILE_PREFIX == <<"c","p","u","p","r","o","f","i","l","e","-">>
PPROF_EXT == <<".","p","p","r","o","f">>

\* Mutant: only the forward slash is rewritten.
ArtifactName_OnlySlash(pkg) ==
    PROFILE_PREFIX \o StrReplace(pkg, SLASH, DUNDER) \o PPROF_EXT

\* suffix = pkg.replace("/", "__").replace("\\", "__")
\* output_file = f"cpuprofile-{suffix}.pprof"
ArtifactName(pkg) ==
    PROFILE_PREFIX
        \o StrReplace(StrReplace(pkg, SLASH, DUNDER), BACKSLASH, DUNDER)
        \o PPROF_EXT

\* Bounds of the identifiers the naming specification draws.
MaxIdLen == 3
IdChars == {"p", "_", "/", "\\"}
SampleIds == SeqsUpTo(IdChars, MaxIdLen)

-----------------------------------------------------------------------------
(* Wildcard matching: Python's glob.glob / the shell's pathname expansion  *)
(* over the names of one directory.                                        *)

RECURSIVE GlobFrom(_, _, _, _)
GlobFrom(pat, name, i, j) ==
    IF i > Len(pat) THEN j > Len(name)
    ELSE IF pat[i] = "*"
         THEN \E k \in j..(Len(name) + 1) : GlobFrom(pat, name, i + 1, k)
         ELSE /\ j <= Len(name)
              /\ pat[i] = name[j]
              /\ GlobFrom(pat, name, i + 1, j + 1)

\* A name starting with "." is matched only by a pattern starting with ".".
GlobMatch(pat, name) ==
    /\ name # <<>>
    /\ (name[1] = "." => (pat # <<>> /\ pat[1] = "."))
    /\ GlobFrom(pat, name, 1, 1)

GlobFiles(dir, pat) == { n \in DOMAIN dir : GlobMatch(pat, n) }

-----------------------------------------------------------------------------
(* The working directory.                                                  *)

EmptyDir == [n \in {} |-> {}]

\* open(name, "wb").write(content), or a shell redirection "> name"
WriteFile(dir, name, content) ==
    [n \in (DOMAIN dir) \cup {name} |-> IF n = name THEN content ELSE dir[n]]

\* os.remove(f) for every f of names
RemoveFiles(dir, names) == [n \in (DOMAIN dir) \ names |-> dir[n]]

MERGED_PROFILE == <<"c","p","u","p","r","o","f","i","l","e","-","m","e","r","g","e","d",".","p","p","r","o","f">>
CANONICAL_PROFILE == <<"c","p","u","p","r","o","f","i","l","e",".","p","p","r","o","f">>
VISUALIZATION == <<"c","p","u","p","r","o","f","i","l","e",".","s","v","g">>
MERGE_GLOB == <<"c","p","u","p","r","o","f","i","l","e","-","*",".","p","p","r","o","f">>
CLEAN_PPROF_GLOB == <<"c","p","u","p","r","o","f","i","l","e","*",".","p","p","r","o","f">>
CLEAN_TEST_GLOB == <<"*",".","t","e","s","t">>
TEST_EXT == <<".","t","e","s","t">>

PKG_CMD_SERVER == <<"c","m","d","/","s","e","r","v","e","r">>
PKG_PKG == <<"p","k","g">>
IMPORTANT_TXT == <<"i","m","p","o","r","t","a","n","t",".","t","x","t">>
OTHER_PPROF == <<"o","t","h","e","r",".","p","p","r","o","f">>
NOT_A_TEST_TXT == <<"n","o","t","_","a","_","t","e","s","t",".","t","x","t">>
SERVER_TEST == <<"s","e","r","v","e","r",".","t","e","s","t">>

\* The state of CanonicalProfile in a directory: whether it exists, and its bytes.
CanonState(dir) ==
    [exists |-> CANONICAL_PROFILE \in DOMAIN dir,
     data   |-> IF CANONICAL_PROFILE \in DOMAIN dir THEN dir[CANONICAL_PROFILE] ELSE {}]

\* The last path element of a package identifier.
RECURSIVE Basename(_)
Basename(pkg) ==
    IF \E i \in 1..Len(pkg) : pkg[i] = "/"
    THEN Basename(Tail(pkg))
    ELSE pkg

\* The test binary "go test -cpuprofile" leaves in the working directory.
TestBinary(pkg) == Basename(pkg) \o TEST_EXT

-----------------------------------------------------------------------------
(* CommandRunner: run_command(cmd, shell=False, check=True).               *)
(*   try: subprocess.run(cmd, shell=shell, check=check)                    *)
(*   except subprocess.CalledProcessError as e: sys.exit(e.returncode)     *)

\* Mutant: a failing command is never fatal.
RunCommandExits_Never(rc, check) == FALSE

\* Mutant: check=False is ignored, every failing command is fatal.
RunCommandExits_Always(rc, check) == rc # 0

\* subprocess.run raises CalledProcessError exactly when check is set and the
\* command's return code is not zero; run_command turns that into sys.exit.
RunCommandExits(rc, check) == check /\ rc # 0

\* Mutant: sys.exit(1) whatever the command returned.
ExitCode_One(rc) == 1

\* sys.exit(e.returncode)
ExitCode(rc) == rc

-----------------------------------------------------------------------------
(* The pipeline: main() of create_pgo.py.                                  *)

\* Bounds of the pipeline specification.
MaxUnits == 2
MaxRuns == 3
MaxRc == 2

UnitIds == {PKG_CMD_SERVER, PKG_PKG}
UnitLists == SeqsUpTo(UnitIds, MaxUnits)
ReturnCodes == 0..MaxRc

\* Files the directory may hold before the first run: three unrelated files,
\* always; an older CanonicalProfile and a left-over test binary, possibly.
UnrelatedFiles == {IMPORTANT_TXT, OTHER_PPROF, NOT_A_TEST_TXT}
InitialDirs ==
    { [n \in UnrelatedFiles \cup opt |->
          IF n = CANONICAL_PROFILE THEN {<<0, 0>>} ELSE {}] :
      opt \in SUBSET {CANONICAL_PROFILE, SERVER_TEST} }

LogEntry(step, unit, rc, out, ins) ==
    [step |-> step, unit |-> unit, rc |-> rc, out |-> out, ins |-> ins]

\* Where main() is after the benchmark of unit i-1: the for loop over the units.
LoopPc(i) == IF i <= Len(units) THEN "bench" ELSE "merge"

PipeInit ==
    /\ units \in UnitLists
    /\ fs \in InitialDirs
    /\ pc = LoopPc(1)
    /\ idx = 1
    /\ run = 1
    /\ exitStatus = <<>>
    /\ log = <<>>
    /\ startCanon = CanonState(fs)
    /\ preClean = EmptyDir

\* A step that ran command rc under run_command(check=True): the process ends
\* with the command's status, or main() goes on at pc okPc.
AfterCommand(rc, okPc) ==
    IF RunCommandExits(rc, TRUE)
    THEN /\ pc' = "exited"
         /\ exitStatus' = <<ExitCode(rc)>>
    ELSE /\ pc' = okPc
         /\ exitStatus' = exitStatus

\* PackageProfiler, one unit: go test ./<pkg>/... -run=^$ -bench=.
\* -cpuprofile=<artifact> -pgo=off. A successful benchmark writes the unit's
\* profile and leaves its test binary; a failing one may have written them.
Benchmark ==
    /\ pc = "bench"
    /\ idx <= Len(units)
    /\ \E rc \in ReturnCodes, wrote \in BOOLEAN :
        LET out == ArtifactName(units[idx]) IN
        /\ rc = 0 => wrote
        /\ fs' = IF wrote
                 THEN WriteFile(WriteFile(fs, out, {<<run, idx>>}),
                                TestBinary(units[idx]), {})
                 ELSE fs
        /\ log' = Append(log, LogEntry("bench", idx, rc,
                                       IF wrote THEN out ELSE <<>>, {}))
        /\ AfterCommand(rc, LoopPc(idx + 1))
        /\ idx' = IF RunCommandExits(rc, TRUE) THEN idx ELSE idx + 1
    /\ UNCHANGED <<units, run, startCanon, preClean>>

\* The files the shell expands cpuprofile-*.pprof to.
MergeInputs(dir) == GlobFiles(dir, MERGE_GLOB)

\* ProfileMerger: go tool pprof -proto cpuprofile-*.pprof > cpuprofile-merged.pprof
\* through the shell. The wildcard is expanded first, then the redirection creates
\* or truncates the merged file, then the tool runs: with no input it fails, and
\* a merged file of an earlier run is an input that is read empty.
Merge ==
    /\ pc = "merge"
    /\ \E rc \in ReturnCodes :
        LET ins == MergeInputs(fs)
            merged == UNION { IF n = MERGED_PROFILE THEN {} ELSE fs[n] : n \in ins }
        IN
        /\ ins = {} => rc # 0
        /\ fs' = WriteFile(fs, MERGED_PROFILE, IF rc = 0 THEN merged ELSE {})
        /\ log' = Append(log, LogEntry("merge", 0, rc, MERGED_PROFILE, ins))
        /\ AfterCommand(rc, "copy")
    /\ UNCHANGED <<units, idx, run, startCanon, preClean>>

\* Mutant: the copy appends to the canonical profile instead of overwriting it.
CopyProfile_Append(dir) ==
    WriteFile(dir, CANONICAL_PROFILE,
              CanonState(dir).data \cup dir[MERGED_PROFILE])

\* with open(src, "rb") as src_file, open(dst, "wb") as dst_file:
\*     dst_file.write(src_file.read())
CopyProfile(dir) == WriteFile(dir, CANONICAL_PROFILE, dir[MERGED_PROFILE])

\* ArtifactPublisher, step 1: the merged profile becomes cpuprofile.pprof.
Publish ==
    /\ pc = "copy"
    /\ fs' = CopyProfile(fs)
    /\ log' = Append(log, LogEntry("copy", 0, 0, CANONICAL_PROFILE, {}))
    /\ pc' = "svg"
    /\ UNCHANGED <<units, idx, run, exitStatus, startCanon, preClean>>

\* ArtifactPublisher, step 2: go tool pprof -svg cpuprofile.pprof > cpuprofile.svg
\* through the shell; the redirection creates the file also when the tool fails.
Visualize ==
    /\ pc = "svg"
    /\ \E rc \in ReturnCodes :
        /\ fs' = WriteFile(fs, VISUALIZATION,
                           IF rc = 0 THEN fs[CANONICAL_PROFILE] ELSE {})
        /\ log' = Append(log, LogEntry("svg", 0, rc, VISUALIZATION, {}))
        /\ AfterCommand(rc, "cleanup")
    /\ UNCHANGED <<units, idx, run, startCanon, preClean>>

\* Mutant: every profile is removed, whatever its name.
CleanedDir_AllPprof(dir) ==
    RemoveFiles(dir, GlobFiles(dir, <<"*",".","p","p","r","o","f">>)
                     \cup GlobFiles(dir, CLEAN_TEST_GLOB))

\* for f in glob.glob("cpuprofile*.pprof"): os.remove(f)
\* for f in glob.glob("*.test"): os.remove(f)
CleanedDir(dir) ==
    LET afterPprof == RemoveFiles(dir, GlobFiles(dir, CLEAN_PPROF_GLOB))
    IN  RemoveFiles(afterPprof, GlobFiles(afterPprof, CLEAN_TEST_GLOB))

\* WorkspaceCleaner, then main() returns: the process ends with status 0.
Cleanup ==
    /\ pc = "cleanup"
    /\ preClean' = fs
    /\ fs' = CleanedDir(fs)
    /\ log' = Append(log, LogEntry("cleanup", 0, 0, <<>>, {}))
    /\ pc' = "done"
    /\ exitStatus' = <<0>>
    /\ UNCHANGED <<units, idx, run, startCanon>>

\* The operator invokes the script again, in the directory as the last run left it.
StartRun ==
    /\ pc \in {"done", "exited"}
    /\ run < MaxRuns
    /\ run' = run + 1
    /\ pc' = LoopPc(1)
    /\ idx' = 1
    /\ exitStatus' = <<>>
    /\ log' = <<>>
    /\ startCanon' = CanonState(fs)
    /\ preClean' = EmptyDir
    /\ UNCHANGED <<units, fs>>

PipeIdle ==
    /\ units = <<>>
    /\ fs = EmptyDir
    /\ pc = "off"
    /\ idx = 0
    /\ run = 0
    /\ exitStatus = <<>>
    /\ log = <<>>
    /\ startCanon = CanonState(EmptyDir)
    /\ preClean = EmptyDir

-----------------------------------------------------------------------------
(* CommandRunner called on its own, as its tests call it.                  *)

MaxCalls == 3

RunnerInit ==
    /\ calls = <<>>
    /\ invocations = 0
    /\ alive = TRUE
    /\ procStatus = <<>>

\* run_command(cmd, shell, check) on a command that exits with rc: one
\* subprocess.run; then the call returns, or sys.exit ends the process.
CallRunCommand ==
    /\ alive
    /\ Len(calls) < MaxCalls
    /\ \E rc \in ReturnCodes, shell \in BOOLEAN, check \in BOOLEAN :
        /\ invocations' = invocations + 1
        /\ calls' = Append(calls, [rc |-> rc, shell |-> shell, check |-> check,
                                   returned |-> ~RunCommandExits(rc, check)])
        /\ alive' = ~RunCommandExits(rc, check)
        /\ procStatus' = IF RunCommandExits(rc, check)
                         THEN <<ExitCode(rc)>>
                         ELSE procStatus

RunnerIdle ==
    /\ calls = <<>>
    /\ invocations = 0
    /\ alive = FALSE
    /\ procStatus = <<>>

-----------------------------------------------------------------------------
(* Secret rotation: change_me_local_secret.py.                             *)

PLACEHOLDER == <<"C","H","A","N","G","E","_","M","E","_","L","O","C","A","L","_","S","E","C","R","E","T">>
ENV_PATH == ".env"
REALM_PATH == ".keycloak.json"
Paths == {ENV_PATH, REALM_PATH}

\* string.ascii_letters + string.digits
ALPHABET ==
    {"a","b","c","d","e","f","g","h","i","j","k","l","m","n","o","p","q","r","s",
     "t","u","v","w","x","y","z","A","B","C","D","E","F","G","H","I","J","K","L",
     "M","N","O","P","Q","R","S","T","U","V","W","X","Y","Z",
     "0","1","2","3","4","5","6","7","8","9"}

\* The length main() asks generate_secret for.
SECRET_LENGTH == 32

\* The characters the drawn secrets start and end with; every other position
\* holds "a". "T" ends and "C" starts the placeholder.
SecretEnds == {"a", "T", "C"} \cap ALPHABET

\* "".join(secrets.choice(ALPHABET) for _ in range(length)): the secrets drawn
\* are those of that length whose first and last characters are in SecretEnds.
generate_secret(length) ==
    { [i \in 1..length |-> IF i = 1 THEN h ELSE IF i = length THEN t ELSE "a"] :
      h \in SecretEnds, t \in SecretEnds }

NoFile == [exists |-> FALSE, text |-> <<>>]
FileWith(text) == [exists |-> TRUE, text |-> text]

\* Mutant: only the first occurrence is replaced (text.replace(P, secret, 1)).
RECURSIVE ReplacedText_FirstOnly(_, _)
ReplacedText_FirstOnly(text, secret) ==
    IF text = <<>> THEN <<>>
    ELSE IF MatchAt(text, PLACEHOLDER, 1)
         THEN secret \o SubSeq(text, Len(PLACEHOLDER) + 1, Len(text))
         ELSE <<Head(text)>> \o ReplacedText_FirstOnly(Tail(text), secret)

\* text.replace(PLACEHOLDER, secret)
ReplacedText(text, secret) == StrReplace(text, PLACEHOLDER, secret)

\* Mutant: a missing file is created, holding the secret (no exists() check).
replace_placeholder_CreatesMissing(file, secret) ==
    IF ~file.exists THEN FileWith(secret)
    ELSE IF ~Contains(file.text, PLACEHOLDER) THEN file
    ELSE FileWith(ReplacedText(file.text, secret))

\* replace_placeholder(path, secret): the file it leaves.
\*   if not path.exists(): return
\*   if PLACEHOLDER not in text: return
\*   text = text.replace(PLACEHOLDER, secret); path.write_text(text)
replace_placeholder(file, secret) ==
    IF ~file.exists THEN file
    ELSE IF ~Contains(file.text, PLACEHOLDER) THEN file
    ELSE FileWith(ReplacedText(file.text, secret))

\* Whether replace_placeholder(path, secret) writes the file.
WritesFile(file) == file.exists /\ Contains(file.text, PLACEHOLDER)

\* Bounds of the rotation specification.
MaxFrags == 2
MaxRotations == 2

\* The placeholder without its last, and without its first, character.
P_HEAD == SubSeq(PLACEHOLDER, 1, Len(PLACEHOLDER) - 1)
P_TAIL == SubSeq(PLACEHOLDER, 2, Len(PLACEHOLDER))
ENV_KEY == <<"S","E","C","R","E","T","=">>
NEWLINE == <<"\n">>
Fragments == {PLACEHOLDER, P_HEAD, P_TAIL, ENV_KEY, NEWLINE}

RECURSIVE Concat(_)
Concat(ss) == IF ss = <<>> THEN <<>> ELSE Head(ss) \o Concat(Tail(ss))

\* The file contents the rotation specification draws.
SampleTexts == { Concat(fs0) : fs0 \in SeqsUpTo(Fragments, MaxFrags) }

\* .env.example and .keycloak.json.example: the committed templates, which
\* carry the placeholder; the realm file carries it more than once.
ENV_TEMPLATE == ENV_KEY \o PLACEHOLDER \o NEWLINE
REALM_TEMPLATE == <<"{">> \o PLACEHOLDER \o <<",">> \o PLACEHOLDER \o <<"}">>
Template(path) == IF path = ENV_PATH THEN ENV_TEMPLATE ELSE REALM_TEMPLATE

RotateInit ==
    /\ \E e \in {NoFile} \cup { FileWith(t) : t \in SampleTexts },
          r \in {NoFile, FileWith(REALM_TEMPLATE)} :
          files = [p \in Paths |-> IF p = ENV_PATH THEN e ELSE r]
    /\ orig = [p \in Paths |-> files[p].text]
    /\ writes = [p \in Paths |-> 0]
    /\ afterFirst = [p \in Paths |-> <<>>]
    /\ written = [p \in Paths |-> <<>>]
    /\ rotations = 0

\* The developer creates a local file by copying its *.example template.
CopyTemplate ==
    \E p \in Paths :
        /\ ~files[p].exists
        /\ files' = [files EXCEPT ![p] = FileWith(Template(p))]
        /\ orig' = [orig EXCEPT ![p] = Template(p)]
        /\ UNCHANGED <<writes, afterFirst, written, rotations>>

\* main(): secret = generate_secret(32); replace_placeholder(ENV_PATH, secret);
\* replace_placeholder(REALM_PATH, secret).
Rotate ==
    /\ rotations < MaxRotations
    /\ \E secret \in generate_secret(SECRET_LENGTH) :
        /\ files' = [p \in Paths |-> replace_placeholder(files[p], secret)]
        /\ writes' = [p \in Paths |->
                         IF WritesFile(files[p]) THEN writes[p] + 1 ELSE writes[p]]
        /\ afterFirst' = [p \in Paths |->
                         IF WritesFile(files[p]) /\ writes[p] = 0
                         THEN replace_placeholder(files[p], secret).text
                         ELSE afterFirst[p]]
        /\ written' = [p \in Paths |->
                         IF WritesFile(files[p]) THEN secret ELSE written[p]]
    /\ rotations' = rotations + 1
    /\ UNCHANGED orig

RotateIdle ==
    /\ files = [p \in Paths |-> NoFile]
    /\ orig = [p \in Paths |-> <<>>]
    /\ writes = [p \in Paths |-> 0]
    /\ afterFirst = [p \in Paths |-> <<>>]
    /\ written = [p \in Paths |-> <<>>]
    /\ rotations = 0

-----------------------------------------------------------------------------
(* Specifications.                                                         *)

NamingInit ==
    /\ idA \in SampleIds
    /\ idB \in SampleIds
    /\ nameA = <<>>
    /\ nameB = <<>>
    /\ named = FALSE

\* The pipeline derives the artifact name of each unit.
DeriveNames ==
    /\ ~named
    /\ nameA' = ArtifactName(idA)
    /\ nameB' = ArtifactName(idB)
    /\ named' = TRUE
    /\ UNCHANGED <<idA, idB>>

NamingIdle ==
    /\ idA = <<>>
    /\ idB = <<>>
    /\ nameA = <<>>
    /\ nameB = <<>>
    /\ named = FALSE

\* The pipeline, run after run.
Init == PipeInit /\ NamingIdle /\ RunnerIdle /\ RotateIdle

Next ==
    \/ Benchmark /\ UNCHANGED <<nameVars, runVars, rotVars>>
    \/ Merge /\ UNCHANGED <<nameVars, runVars, rotVars>>
    \/ Publish /\ UNCHANGED <<nameVars, runVars, rotVars>>
    \/ Visualize /\ UNCHANGED <<nameVars, runVars, rotVars>>
    \/ Cleanup /\ UNCHANGED <<nameVars, runVars, rotVars>>
    \/ StartRun /\ UNCHANGED <<nameVars, runVars, rotVars>>

Spec == Init /\ [][Next]_vars

\* The naming function applied to pairs of identifiers.
InitNaming == NamingInit /\ PipeIdle /\ RunnerIdle /\ RotateIdle

NextNaming == DeriveNames /\ UNCHANGED <<pipeVars, runVars, rotVars>>

SpecNaming == InitNaming /\ [][NextNaming]_vars

\* run_command called by a caller of its own, with either policy.
InitRunner == RunnerInit /\ PipeIdle /\ NamingIdle /\ RotateIdle

NextRunner == CallRunCommand /\ UNCHANGED <<pipeVars, nameVars, rotVars>>

SpecRunner == InitRunner /\ [][NextRunner]_vars

\* Rotation runs over the two local files.
InitRotate == RotateInit /\ PipeIdle /\ NamingIdle /\ RunnerIdle

NextRotate ==
    \/ CopyTemplate /\ UNCHANGED <<pipeVars, nameVars, runVars>>
    \/ Rotate /\ UNCHANGED <<pipeVars, nameVars, runVars>>

SpecRotate == InitRotate /\ [][NextRotate]_vars

-----------------------------------------------------------------------------
(* Claims about the pipeline, checked under Spec.                          *)

StartsWith(s, p) == Len(p) <= Len(s) /\ SubSeq(s, 1, Len(p)) = p
EndsWith(s, p) == Len(p) <= Len(s) /\ SubSeq(s, Len(s) - Len(p) + 1, Len(s)) = p

\* The steps whose command run_command enforces.
EnforcedSteps == {"bench", "merge", "svg"}

\* C1: once an enforced command (a benchmark, the merge, the visualization) has
\* exited non-zero, the run executes no later step - that command is the last
\* entry of the run's history and the process has ended - and every artifact the
\* run had written is still in the directory when the run ends.
C1_FailFast ==
    /\ \A k \in 1..Len(log) :
          log[k].rc # 0 => (k = Len(log) /\ pc = "exited")
    /\ pc = "exited" =>
          \A k \in 1..Len(log) : log[k].out # <<>> => log[k].out \in DOMAIN fs

\* A run whose merge failed after a benchmark had written its profile.
C1_Witness ==
    /\ pc = "exited"
    /\ Len(log) = 2
    /\ log[1].step = "bench" /\ log[1].out \in DOMAIN fs
    /\ log[2].step = "merge" /\ log[2].rc # 0
    /\ VISUALIZATION \notin DOMAIN fs

\* The steps of a run that completes every stage, for the configured units.
FullRun ==
    /\ Len(log) = Len(units) + 4
    /\ \A k \in 1..Len(log) : log[k].rc = 0
    /\ \A k \in 1..Len(units) : log[k].step = "bench" /\ log[k].unit = k
    /\ log[Len(units) + 1].step = "merge"
    /\ log[Len(units) + 2].step = "copy"
    /\ log[Len(units) + 3].step = "svg"
    /\ log[Len(units) + 4].step = "cleanup"

\* C2: the process has an exit status exactly when the run has ended; after an
\* abort it is the status of the first (and only) enforced command that exited
\* non-zero; it is zero exactly when every stage completed.
C2_ExitStatus ==
    /\ (exitStatus # <<>>) <=> (pc \in {"done", "exited"})
    /\ pc = "exited" =>
          \E k \in 1..Len(log) :
              /\ log[k].step \in EnforcedSteps
              /\ log[k].rc # 0
              /\ \A j \in 1..(k - 1) : log[j].rc = 0
              /\ exitStatus = <<log[k].rc>>
    /\ (exitStatus = <<0>>) <=> (pc = "done" /\ FullRun)

\* A run aborted by its second command, which exited with status 2.
C2_Witness ==
    /\ pc = "exited"
    /\ exitStatus = <<2>>
    /\ Len(log) >= 2
    /\ log[Len(log)].rc = 2

\* The files one run of the pipeline writes, in order.
ExpectedWrites ==
    [k \in 1..(Len(units) + 3) |->
        IF k <= Len(units) THEN ArtifactName(units[k])
        ELSE IF k = Len(units) + 1 THEN MERGED_PROFILE
        ELSE IF k = Len(units) + 2 THEN CANONICAL_PROFILE
        ELSE VISUALIZATION]

PipelineArtifacts ==
    { ArtifactName(units[k]) : k \in 1..Len(units) }
        \cup {MERGED_PROFILE, CANONICAL_PROFILE, VISUALIZATION}

\* C3: a run in which every command succeeds writes the per-unit artifacts in
\* configured order, then the merged profile, then cpuprofile.pprof, then
\* cpuprofile.svg, then cleans up; at its end every intermediate is gone and, of
\* the pipeline's artifacts, exactly cpuprofile.pprof and cpuprofile.svg exist.
C3_SuccessfulRun ==
    pc = "done" =>
        /\ Len(log) = Len(units) + 4
        /\ \A k \in 1..(Len(units) + 3) : log[k].out = ExpectedWrites[k]
        /\ log[Len(log)].step = "cleanup"
        /\ \A k \in 1..Len(units) : ArtifactName(units[k]) \notin DOMAIN fs
        /\ MERGED_PROFILE \notin DOMAIN fs
        /\ PipelineArtifacts \cap DOMAIN fs = {CANONICAL_PROFILE, VISUALIZATION}

\* Intermediates in the words of the claims: per-unit profiles and the merged
\* profile (cpuprofile-<...>.pprof), and test binaries (<...>.test).
IsIntermediate(n) ==
    \/ StartsWith(n, PROFILE_PREFIX) /\ EndsWith(n, PPROF_EXT)
          /\ Len(n) >= Len(PROFILE_PREFIX) + Len(PPROF_EXT)
    \/ EndsWith(n, TEST_EXT) /\ n[1] # "."

\* C4: the cleaner deletes every per-unit profile, the merged profile and the
\* test binaries, and leaves cpuprofile.pprof, cpuprofile.svg and every
\* unrelated file present and unchanged.
C4_CleanerFrame ==
    pc = "done" =>
        \A n \in DOMAIN preClean :
            IF IsIntermediate(n)
            THEN n \notin DOMAIN fs
            ELSE n \in DOMAIN fs /\ fs[n] = preClean[n]

\* A name matches cpuprofile*.pprof or *.test, as glob.glob matches names.
MatchesCleanPatterns(n) ==
    \/ StartsWith(n, <<"c","p","u","p","r","o","f","i","l","e">>)
          /\ EndsWith(n, PPROF_EXT)
          /\ Len(n) >= 10 + Len(PPROF_EXT)
    \/ EndsWith(n, TEST_EXT) /\ n[1] # "."

\* C5: after cleanup no file whose name matches cpuprofile*.pprof or *.test
\* remains, and every file matching neither is still present, unchanged; the
\* cleanup creates no file.
C5_RemovalSet ==
    pc = "done" =>
        /\ DOMAIN fs \subseteq DOMAIN preClean
        /\ \A n \in DOMAIN preClean :
              IF MatchesCleanPatterns(n)
              THEN n \notin DOMAIN fs
              ELSE n \in DOMAIN fs /\ fs[n] = preClean[n]

\* The directory of the cleanup scenario has been cleaned: the canonical, a
\* per-unit and the merged profile and a test binary, beside unrelated files.
C5_Witness ==
    /\ pc = "done"
    /\ {CANONICAL_PROFILE, MERGED_PROFILE, SERVER_TEST, IMPORTANT_TXT, OTHER_PPROF,
        NOT_A_TEST_TXT, ArtifactName(PKG_CMD_SERVER)} \subseteq DOMAIN preClean
    /\ DOMAIN fs = {IMPORTANT_TXT, OTHER_PPROF, NOT_A_TEST_TXT, VISUALIZATION}

C13_MergeInputsFresh ==
    \A k \in 1..Len(log) :
        (log[k].step = "merge" /\ units # <<>>) =>
            /\ log[k].ins = { ArtifactName(units[i]) : i \in 1..Len(units) }
            /\ \A n \in log[k].ins :
                  \E j \in 1..(k - 1) : log[j].step = "bench" /\ log[j].out = n

-----------------------------------------------------------------------------
(* Claims about run_command on its own, checked under SpecRunner.          *)

\* C9: run_command with check=False on a command that exits non-zero returns
\* normally to its caller, after exactly one invocation of the command: the
\* process is not terminated by it.
C9_FailSoft ==
    /\ invocations = Len(calls)
    /\ \A k \in 1..Len(calls) :
          (~calls[k].check /\ calls[k].rc # 0) =>
              /\ calls[k].returned
              /\ (k = Len(calls) => (alive /\ procStatus = <<>>))

\* A failing command was tolerated and the caller went on to call again.
C9_Witness ==
    /\ Len(calls) = 2
    /\ ~calls[1].check /\ calls[1].rc = 1 /\ calls[1].returned
    /\ invocations = 2

-----------------------------------------------------------------------------
(* Claims about the secret rotation, checked under SpecRotate.             *)

\* C10 as stated: once a rotation run has replaced the placeholder in a file, the
\* file holds no occurrence of the placeholder, and later rotation runs leave
\* it byte-identical to what the first replacement left.
C10_Idempotent ==
    \A p \in Paths :
        writes[p] >= 1 =>
            /\ ~Contains(files[p].text, PLACEHOLDER)
            /\ files[p].text = afterFirst[p]

PlaceholderChars == { PLACEHOLDER[i] : i \in 1..Len(PLACEHOLDER) }

\* Every occurrence of the placeholder stands alone: the character before it
\* and the character after it, if any, are not characters of the placeholder.
StandsAlone(text) ==
    \A i \in 1..Len(text) :
        MatchAt(text, PLACEHOLDER, i) =>
            /\ (i > 1 => text[i - 1] \notin PlaceholderChars)
            /\ (i + Len(PLACEHOLDER) <= Len(text) =>
                    text[i + Len(PLACEHOLDER)] \notin PlaceholderChars)

\* C10 as amended: for a file in which every occurrence of the placeholder
\* stands alone, once a rotation run has replaced the placeholder the file
\* holds no occurrence of it, and later rotation runs leave it byte-identical.
C10_IdempotentWhenStandingAlone ==
    \A p \in Paths :
        (writes[p] >= 1 /\ StandsAlone(orig[p])) =>
            /\ ~Contains(files[p].text, PLACEHOLDER)
            /\ files[p].text = afterFirst[p]
            /\ writes[p] = 1

\* SECRET=CHANGE_ME_LOCAL_SECRET was rotated, and a second run has followed.
C10_Witness ==
    /\ rotations = 2
    /\ orig[ENV_PATH] = ENV_KEY \o PLACEHOLDER
    /\ writes[ENV_PATH] = 1
    /\ files[ENV_PATH].text = ENV_KEY \o written[ENV_PATH]
    /\ Len(written[ENV_PATH]) = SECRET_LENGTH

\* A step that is a rotation run (main), not the creation of a local file.
RotationStep == rotations' = rotations + 1

\* C11: in a rotation run, a path that does not exist still does not exist
\* afterwards; an existing file with no occurrence of the placeholder (an empty
\* file included) is not written and stays byte-identical; a file is written,
\* and changes, only when it exists and holds the placeholder.
C11_NoOpCases ==
    [][RotationStep =>
        \A p \in Paths :
            /\ ~files[p].exists => (~files'[p].exists /\ writes'[p] = writes[p])
            /\ (files[p].exists /\ ~Contains(files[p].text, PLACEHOLDER)) =>
                   (files'[p] = files[p] /\ writes'[p] = writes[p])
            /\ (files'[p] # files[p] \/ writes'[p] # writes[p]) =>
                   (files[p].exists /\ Contains(files[p].text, PLACEHOLDER))
    ]_vars

\* A rotation run has passed over a missing .keycloak.json and over a .env
\* that holds no placeholder.
C11_Witness ==
    /\ rotations = 1
    /\ ~files[REALM_PATH].exists
    /\ files[ENV_PATH].exists
    /\ files[ENV_PATH].text = ENV_KEY
    /\ orig[ENV_PATH] = ENV_KEY
    /\ writes[ENV_PATH] = 0

\* C12: when both local files were created from their templates and both have
\* been rotated, the secret written into .env is the secret written into
\* .keycloak.json.
C12_SecretInSync ==
    ( /\ orig[ENV_PATH] = ENV_TEMPLATE
      /\ orig[REALM_PATH] = REALM_TEMPLATE
      /\ written[ENV_PATH] # <<>>
      /\ written[REALM_PATH] # <<>> )
    => written[ENV_PATH] = written[REALM_PATH]

-----------------------------------------------------------------------------
(* C7 - artifact naming.                                                   *)

\* The claim's own reading of the substitution: character by character.
SubstChar(c) == IF c = "/" \/ c = "\\" THEN DUNDER ELSE <<c>>

RECURSIVE SubstAll(_)
SubstAll(s) == IF s = <<>> THEN <<>> ELSE SubstChar(Head(s)) \o SubstAll(Tail(s))

\* C7: for every identifier id, the per-unit artifact file name is
\* "cpuprofile-" + id' + ".pprof", id' being id with every "/" and every "\"
\* replaced by "__" and every other character unchanged.
C7_ArtifactNaming ==
    named =>
        /\ nameA = PROFILE_PREFIX \o SubstAll(idA) \o PPROF_EXT
        /\ nameB = PROFILE_PREFIX \o SubstAll(idB) \o PPROF_EXT

\* An identifier with a slash, a backslash and an ordinary character has been named.
C7_Witness ==
    /\ named
    /\ idA = <<"p", "/", "p">>
    /\ idB = <<"\\", "p">>
    /\ nameA = <<"c","p","u","p","r","o","f","i","l","e","-","p","_","_","p",".","p","p","r","o","f">>

\* C8: two identifiers that are different strings get different artifact names.
C8_NoCollision ==
    (named /\ idA # idB) => nameA # nameB

====
